---- MODULE Spec2Model ----
(***************************************************************************)
(* strong_scope_guard: scope(), LocalScopeGuard, StaticScopeGuard and the  *)
(* LocalScopeGuards collections, as a state machine.                       *)
(*                                                                         *)
(* The program state is the stack of active scope() calls (frames), the    *)
(* guards (a handler slot each) and the guards the running body owns.  The *)
(* body handed to scope() is caller code: it is modelled by the steps a    *)
(* body can take with the guards it owns (assign a handler, drop, leak,    *)
(* open a nested scope() with a move closure, return a collection of type  *)
(* G plus an output, panic).  All guards carry the same handler type       *)
(* Option<fn()>, as in examples/example.rs, so any LocalScopeGuard fits    *)
(* any position of a returned collection.                                  *)
(*                                                                         *)
(* Three further scope() calls are modelled next to it, each with its own  *)
(* state: tup, a pair of guards whose handler type is a tuple (SpecTuple); *)
(* col, a nested guard collection (SpecColl); dma, the Dma type-state      *)
(* machine of examples/example.rs driven by scope bodies (SpecDma).        *)
(***************************************************************************)
EXTENDS Integers, Sequences, FiniteSets, TLC

\* Bounds of the model.
MaxScopes == 2      \* scope() calls in one run
MaxGuards == 3      \* LocalScopeGuards created in one run
MaxAssign == 2      \* set_handler calls in one run
MaxStatic == 1      \* StaticScopeGuard::new() calls in one run
MaxOut == 2         \* distinct result values a body returns
MaxClosures == 3    \* closures put into tuple handlers in one run
MaxNodes == 4       \* nodes (guards, tuples, arrays) of a guard collection type
MaxColAssign == 2   \* set_handler calls on the guards of a nested collection
MaxColSwap == 1     \* exchanges of guards in a nested collection

\* LocalScopeGuards is implemented for tuples and arrays of up to 6 elements.
MaxTupleLen == 6

VARIABLES
    frames,     \* stack of active scope() calls [sid, pc, coll, outg, out, idx]
    held,       \* the guards the running body owns
    guards,     \* guard id -> [kind, handler]: the guard values
    ginfo,      \* guard id -> [scope, pos, st, via, ran, atend]: history
    scopes,     \* scope id -> [arity, parent, created, coll, hs, bodyend, exit,
                \*              cause, out, result]
    assigns,    \* guard id -> its set_handler calls, [some, panics, s, inv]
    finseq,     \* the guards in the order of their (first) finalization
    status,     \* "running" | "done" | "unwound" | "aborted"
    tup,        \* a scope() whose guards hold tuple handlers: [pc, n, slots, ...]
    col,        \* a scope() over a nested guard collection
    dma         \* the Dma of examples/example.rs: [state, guard, stopped]

vars == <<frames, held, guards, ginfo, scopes, assigns, finseq, status, tup, col, dma>>
\* the state of the scenarios that the scope() calls of Next leave alone
aux == <<tup, col, dma>>

----------------------------------------------------------------------------
\* Handlers: Option<F>.  A handler value is None or Some(closure); the
\* closure stored by the k-th set_handler call on a guard is written k.

\* <Option<F> as ScopeEndHandler>::none()
None == 0

\* Faulty variant of OptionCall: runs the slot's content even when it is None
OptionCallAlways(h) == <<h>>

\* <Option<F> as ScopeEndHandler>::call(self): the closures it runs, in order
OptionCall(h) == IF h # None THEN <<h>> ELSE <<>>

\* Tuple handlers: (H1, ..., Hn) with every Hi an Option<F>.  An element is
\* None, Some of a closure that returns or Some of a closure that panics.
OkFn == 1
PanicFn == 2

\* <(H1, ..., Hn) as ScopeEndHandler>::none(): ($($elem::none(),)*)
TupleNone(n) == [i \in 1..n |-> None]

\* Faulty variant of TupleCall: stops at the first empty element
RECURSIVE TupleCallShortFrom(_, _)
TupleCallShortFrom(h, i) ==
    IF i > Len(h) \/ h[i] = None THEN [invoked |-> <<>>, panicked |-> FALSE]
    ELSE IF h[i] = PanicFn THEN [invoked |-> <<i>>, panicked |-> TRUE]
    ELSE LET r == TupleCallShortFrom(h, i + 1)
         IN [invoked |-> <<i>> \o r.invoked, panicked |-> r.panicked]
TupleCallShort(h) == TupleCallShortFrom(h, 1)

\* Faulty variant of TupleCall: goes on with the next elements after a
\* closure has panicked
TupleCallAll(h) ==
    [invoked |-> SelectSeq([i \in 1..Len(h) |-> i], LAMBDA i : h[i] # None),
     panicked |-> \E i \in 1..Len(h) : h[i] = PanicFn]

\* $($elem.call();)* from element i on: the positions of the closures it
\* runs, in order; a closure that panics ends the call, and the elements
\* after it are dropped by the unwind (dropping an Option<F> runs nothing)
RECURSIVE TupleCallFrom(_, _)
TupleCallFrom(h, i) ==
    IF i > Len(h) THEN [invoked |-> <<>>, panicked |-> FALSE]
    ELSE IF OptionCall(h[i]) = <<>> THEN TupleCallFrom(h, i + 1)
    ELSE IF h[i] = PanicFn THEN [invoked |-> <<i>>, panicked |-> TRUE]
    ELSE LET r == TupleCallFrom(h, i + 1)
         IN [invoked |-> <<i>> \o r.invoked, panicked |-> r.panicked]

\* <(H1, ..., Hn) as ScopeEndHandler>::call(self)
TupleCall(h) == TupleCallFrom(h, 1)

----------------------------------------------------------------------------
\* Guards.

\* LocalScopeGuard::new(): handler: H::none()
LocalNew == [kind |-> "local", handler |-> None]

\* StaticScopeGuard::new(): handler is PhantomData, there is no slot; the
\* field is kept so that a write to it would be visible
StaticNew == [kind |-> "static", handler |-> None]

\* LocalScopeGuard::handler_mut(): Some(&mut self.handler)
LocalHandlerMut(g) == TRUE

\* Faulty variant of StaticHandlerMut: a slot that set_handler writes
StaticHandlerMutSome(g) == TRUE

\* StaticScopeGuard::handler_mut(): None
StaticHandlerMut(g) == FALSE

\* ScopeGuard::handler_mut, by implementing type: is there a slot
HandlerMut(g) == IF g.kind = "local" THEN LocalHandlerMut(g) ELSE StaticHandlerMut(g)

\* Faulty variant of SetHandler: keeps a handler that is already set
SetHandlerKeep(g, h) ==
    IF HandlerMut(g) /\ g.handler = None THEN [g EXCEPT !.handler = h] ELSE g

\* ScopeGuard::set_handler(&mut self, handler)
SetHandler(g, h) == IF HandlerMut(g) THEN [g EXCEPT !.handler = h] ELSE g

\* Faulty variant of LocalCall: runs the handler and leaves it in the slot
LocalCallKeep(g) == [guard |-> g, invoked |-> OptionCall(g.handler)]

\* LocalScopeGuard::call(): mem::replace(&mut self.handler, H::none()).call()
LocalCall(g) == [guard |-> [g EXCEPT !.handler = None], invoked |-> OptionCall(g.handler)]

\* StaticScopeGuard::call(): {}
StaticCall(g) == [guard |-> g, invoked |-> <<>>]

\* LocalScopeGuard::new() for H = (H1, ..., Hn)
TupleLocalNew(n) == [kind |-> "local", handler |-> TupleNone(n)]

\* LocalScopeGuard::call() for H = (H1, ..., Hn), also run by Drop
TupleLocalCall(g) ==
    [guard |-> [g EXCEPT !.handler = TupleNone(Len(g.handler))],
     result |-> TupleCall(g.handler)]

\* ScopeGuardPriv::call, by implementing type
Call(g) == IF g.kind = "local" THEN LocalCall(g) ELSE StaticCall(g)

\* <LocalScopeGuard as LocalScopeGuards>::call_all(): self.call()
LocalCallAll(g) == Call(g)

\* Faulty variant of LocalDrop: a LocalScopeGuard without the Drop impl
LocalDropNothing(g) == [guard |-> g, invoked |-> <<>>]

\* Drop for LocalScopeGuard: ScopeGuardPriv::call(self)
LocalDrop(g) == Call(g)

\* Dropping a guard value: LocalScopeGuard has the Drop impl,
\* StaticScopeGuard has none
DropGuard(g) == IF g.kind = "local" THEN LocalDrop(g) ELSE [guard |-> g, invoked |-> <<>>]

----------------------------------------------------------------------------
\* Bookkeeping shared by the actions.

Top == frames[Len(frames)]
SetTop(f) == [frames EXCEPT ![Len(frames)] = f]
Range(s) == {s[i] : i \in 1..Len(s)}
Min(a, b) == IF a < b THEN a ELSE b

\* the closures of guard gid's set_handler calls that a finalization
\* result r of that guard runs
RanSet(gid, r) == Range(r.invoked) \cap DOMAIN assigns[gid]
\* Faulty variant of RanPanics: the panic of a closure is caught and dropped
RanPanicsMasked(gid, r) == FALSE

\* does a closure it runs panic
RanPanics(gid, r) == \E k \in RanSet(gid, r) : assigns[gid][k].panics
\* the number of LocalScopeGuards created so far
NumLocal == Cardinality({g \in DOMAIN guards : guards[g].kind = "local"})
\* the number of set_handler calls so far
NumAssigns == Cardinality(UNION {{<<g, k>> : k \in DOMAIN assigns[g]} : g \in DOMAIN assigns})

Running == status = "running" /\ Len(frames) > 0
InBody == Running /\ Top.pc = "body"

\* Guard gid is finalized with result r (of LocalCallAll or DropGuard):
\* the slot is updated and the closures run are counted; dead says the
\* guard value is gone afterwards.
Finalized(gid, r, via, dead) ==
    /\ guards' = [guards EXCEPT ![gid] = r.guard]
    /\ ginfo' = [ginfo EXCEPT
                    ![gid].st = IF dead THEN "dead" ELSE @,
                    ![gid].via = IF gid \in Range(finseq) THEN @ ELSE via,
                    ![gid].ran = Min(@ + Len(r.invoked), 2)]
    /\ finseq' = IF gid \in Range(finseq) THEN finseq ELSE Append(finseq, gid)
    /\ assigns' = [assigns EXCEPT ![gid] = [k \in DOMAIN @ |->
                      IF k \in RanSet(gid, r)
                      THEN [@[k] EXCEPT !.inv = Min(@ + 1, 2)]
                      ELSE @[k]]]

\* the value part of a result that does not exist: scope() has not returned
NoResult == 0

\* the collection type LocalScopeGuard<H>: one guard, no elements
Leaf == [t |-> "guard", e |-> <<>>]

Init ==
    /\ frames = <<>>
    /\ held = {}
    /\ guards = <<>>
    /\ ginfo = <<>>
    /\ scopes = <<>>
    /\ assigns = <<>>
    /\ finseq = <<>>
    /\ status = "running"
    /\ tup = [pc |-> "main", n |-> 0, slots |-> <<>>, atend |-> <<>>, log |-> <<>>,
               pan |-> <<>>, idx |-> 0, left |-> {}, used |-> 0]
    /\ col = [pc |-> "main", shape |-> Leaf, coll |-> Leaf, n |-> 0, slots |-> <<>>,
               visited |-> <<>>, ran |-> <<>>, used |-> 0, swaps |-> 0]
    /\ dma = [state |-> "off", guard |-> 0, stopped |-> {}]

----------------------------------------------------------------------------
\* scope(): let guards = G::new(); body(guards) is entered.  Called from
\* main (no frame) or from inside a body, with a move closure that takes
\* over the guards the calling body owns.  G is a tuple or array of n guards.
ScopeEnter ==
    /\ status = "running"
    /\ Len(scopes) < MaxScopes
    /\ IF Len(frames) = 0 THEN Len(scopes) = 0 ELSE Top.pc = "body"
    /\ \E n \in 0..MaxTupleLen :
       LET sid == Len(scopes) + 1
           new == [i \in 1..n |-> Len(guards) + i]
       IN /\ NumLocal + n <= MaxGuards
          /\ guards' = guards \o [i \in 1..n |-> LocalNew]
          /\ ginfo' = ginfo \o [i \in 1..n |->
                          [scope |-> sid, pos |-> i, st |-> "held", via |-> "none",
                           ran |-> 0, atend |-> None]]
          /\ scopes' = Append(scopes,
                          [arity |-> n,
                           parent |-> IF Len(frames) = 0 THEN 0 ELSE Top.sid,
                           created |-> new, coll |-> <<>>, hs |-> <<>>,
                           bodyend |-> "none", exit |-> "none", cause |-> "none",
                           out |-> [v |-> NoResult, g |-> <<>>],
                           result |-> [v |-> NoResult, g |-> <<>>]])
          /\ frames' = Append(frames, [sid |-> sid, pc |-> "body", coll |-> <<>>,
                                       outg |-> {}, out |-> NoResult, idx |-> 0])
          /\ held' = held \cup Range(new)
          /\ assigns' = assigns \o [i \in 1..n |-> <<>>]
    /\ UNCHANGED <<finseq, status>>
    /\ UNCHANGED aux

\* The body calls g.set_handler(None) or g.set_handler(Some(closure)); the
\* closure either returns or panics when it is run.
BodySetHandler ==
    /\ InBody
    /\ NumAssigns < MaxAssign
    /\ \E g \in held, some \in BOOLEAN, panics \in BOOLEAN :
          /\ some \/ ~panics
          /\ assigns' = [assigns EXCEPT ![g] =
                             Append(@, [some |-> some, panics |-> panics,
                                        s |-> Top.sid, inv |-> 0])]
          /\ guards' = [guards EXCEPT ![g] =
                            SetHandler(@, IF some THEN Len(assigns[g]) + 1 ELSE None)]
    /\ UNCHANGED <<frames, held, ginfo, scopes, finseq, status>>
    /\ UNCHANGED aux

\* The body drops a guard it owns (drop(g), or the guard going out of a
\* block): Drop for LocalScopeGuard runs.  A panicking closure makes the
\* body unwind.
BodyDrop ==
    /\ InBody
    /\ \E g \in held :
       LET r == DropGuard(guards[g])
       IN /\ Finalized(g, r, "bodydrop", TRUE)
          /\ held' = held \ {g}
          /\ IF RanPanics(g, r)
             THEN /\ frames' = SetTop([Top EXCEPT !.pc = "unwind_body"])
                  /\ scopes' = [scopes EXCEPT ![Top.sid].cause = "bodydrop",
                                              ![Top.sid].bodyend = "panic"]
             ELSE UNCHANGED <<frames, scopes>>
    /\ UNCHANGED status
    /\ UNCHANGED aux

\* The body leaks a guard it owns (core::mem::forget(g)): no Drop runs.
BodyForget ==
    /\ InBody
    /\ \E g \in held :
          /\ ginfo' = [ginfo EXCEPT ![g].st = "forgotten"]
          /\ held' = held \ {g}
    /\ UNCHANGED <<frames, guards, scopes, assigns, finseq, status>>
    /\ UNCHANGED aux

\* The collections of type G the body can return: arity-many distinct
\* LocalScopeGuards it owns, in any positions
Returnable(n) ==
    {c \in [1..n -> {g \in held : guards[g].kind = "local"}] :
        \A i, j \in 1..n : i # j => c[i] # c[j]}

\* body(guards) returns (ret, out): let (mut guards, out) = body(guards).
\* out is a value v together with every other guard the body still owns.
BodyReturn ==
    /\ InBody
    /\ \E ret \in Returnable(scopes[Top.sid].arity), v \in 1..MaxOut :
          /\ frames' = SetTop([Top EXCEPT !.pc = "sweep", !.coll = ret,
                                          !.outg = held \ Range(ret), !.out = v,
                                          !.idx = 1])
          /\ scopes' = [scopes EXCEPT
                            ![Top.sid].coll = ret,
                            ![Top.sid].out = [v |-> v, g |-> [x \in held \ Range(ret) |-> guards[x]]],
                            ![Top.sid].hs = [i \in 1..Len(ret) |-> guards[ret[i]].handler],
                            ![Top.sid].bodyend = "return"]
    /\ held' = {}
    /\ ginfo' = [g \in DOMAIN ginfo |->
                    IF ginfo[g].scope = Top.sid
                    THEN [ginfo[g] EXCEPT !.atend = guards[g].handler]
                    ELSE ginfo[g]]
    /\ UNCHANGED <<guards, assigns, finseq, status>>
    /\ UNCHANGED aux

\* The body panics: the unwind starts inside body(guards).
BodyPanic ==
    /\ InBody
    /\ frames' = SetTop([Top EXCEPT !.pc = "unwind_body"])
    /\ scopes' = [scopes EXCEPT ![Top.sid].cause = "panic",
                                ![Top.sid].bodyend = "panic"]
    /\ UNCHANGED <<held, guards, ginfo, assigns, finseq, status>>
    /\ UNCHANGED aux

\* guards.call_all(): the tuple/array impls call call_all() on the elements
\* in position order; one element per step.  A panicking closure starts the
\* unwind of scope() itself.
SweepStep ==
    /\ Running /\ Top.pc = "sweep"
    /\ Top.idx <= Len(Top.coll)
    /\ LET g == Top.coll[Top.idx]
           r == LocalCallAll(guards[g])
       IN /\ Finalized(g, r, "sweep", FALSE)
          /\ IF RanPanics(g, r)
             THEN /\ frames' = SetTop([Top EXCEPT !.pc = "unwind_scope", !.idx = 1])
                  /\ scopes' = [scopes EXCEPT ![Top.sid].cause = "sweep"]
             ELSE /\ frames' = SetTop([Top EXCEPT !.idx = @ + 1])
                  /\ UNCHANGED scopes
    /\ UNCHANGED <<held, status>>
    /\ UNCHANGED aux

\* call_all() has returned: out is moved to the return slot and the local
\* guards goes out of scope.
SweepDone ==
    /\ Running /\ Top.pc = "sweep"
    /\ Top.idx > Len(Top.coll)
    /\ frames' = SetTop([Top EXCEPT !.pc = "drop", !.idx = 1])
    /\ UNCHANGED <<held, guards, ginfo, scopes, assigns, finseq, status>>
    /\ UNCHANGED aux

\* End of scope(): the local guards is dropped, its elements in position
\* order, each through Drop for LocalScopeGuard.
DropStep ==
    /\ Running /\ Top.pc = "drop"
    /\ Top.idx <= Len(Top.coll)
    /\ LET g == Top.coll[Top.idx]
           r == DropGuard(guards[g])
       IN /\ Finalized(g, r, "drop", TRUE)
          /\ IF RanPanics(g, r)
             THEN /\ frames' = SetTop([Top EXCEPT !.pc = "unwind_scope", !.idx = @ + 1])
                  /\ scopes' = [scopes EXCEPT ![Top.sid].cause = "drop"]
             ELSE /\ frames' = SetTop([Top EXCEPT !.idx = @ + 1])
                  /\ UNCHANGED scopes
    /\ UNCHANGED <<held, status>>
    /\ UNCHANGED aux

\* scope() returns out to its caller, which now owns the guards in out.
ScopeReturn ==
    /\ Running /\ Top.pc = "drop"
    /\ Top.idx > Len(Top.coll)
    /\ scopes' = [scopes EXCEPT ![Top.sid].exit = "return",
                                ![Top.sid].result =
                                    [v |-> Top.out, g |-> [x \in Top.outg |-> guards[x]]]]
    /\ frames' = SubSeq(frames, 1, Len(frames) - 1)
    /\ held' = Top.outg
    /\ status' = IF Len(frames) = 1 THEN "done" ELSE status
    /\ UNCHANGED <<guards, ginfo, assigns, finseq>>
    /\ UNCHANGED aux

\* The unwind of a panicking body drops the guards the body owns, in the
\* order the body's bindings dictate (any order).  A closure that panics
\* while the thread is unwinding aborts the process.
UnwindBodyStep ==
    /\ Running /\ Top.pc = "unwind_body"
    /\ \E g \in held :
       LET r == DropGuard(guards[g])
       IN /\ Finalized(g, r, "unwind", TRUE)
          /\ IF RanPanics(g, r)
             THEN /\ frames' = <<>>
                  /\ held' = {}
                  /\ status' = "aborted"
             ELSE /\ held' = held \ {g}
                  /\ UNCHANGED <<frames, status>>
    /\ UNCHANGED scopes
    /\ UNCHANGED aux

\* The unwind of scope() after a panic in call_all(): the locals are dropped
\* in reverse declaration order, out first, then guards, whose elements are
\* dropped in position order.
UnwindScopeStep ==
    /\ Running /\ Top.pc = "unwind_scope"
    /\ \E g \in (IF Top.outg # {} THEN Top.outg
                 ELSE {Top.coll[i] : i \in {Top.idx} \cap DOMAIN Top.coll}) :
       LET r == DropGuard(guards[g])
       IN /\ Finalized(g, r, "unwind", TRUE)
          /\ IF RanPanics(g, r)
             THEN /\ frames' = <<>>
                  /\ status' = "aborted"
             ELSE /\ frames' = SetTop(IF Top.outg # {}
                                      THEN [Top EXCEPT !.outg = @ \ {g}]
                                      ELSE [Top EXCEPT !.idx = @ + 1])
                  /\ UNCHANGED status
    /\ UNCHANGED <<held, scopes>>
    /\ UNCHANGED aux

\* The unwind leaves scope(): it continues in the body that called it, or
\* leaves the program's outermost scope().
UnwindExit ==
    /\ Running
    /\ \/ Top.pc = "unwind_body" /\ held = {}
       \/ Top.pc = "unwind_scope" /\ Top.outg = {} /\ Top.idx > Len(Top.coll)
    /\ IF Len(frames) = 1
       THEN /\ frames' = <<>>
            /\ status' = "unwound"
            /\ scopes' = [scopes EXCEPT ![Top.sid].exit = "unwind"]
       ELSE LET p == frames[Len(frames) - 1]
            IN /\ frames' = [SubSeq(frames, 1, Len(frames) - 1) EXCEPT
                                 ![Len(frames) - 1].pc = "unwind_body"]
               /\ status' = status
               /\ scopes' = [scopes EXCEPT ![Top.sid].exit = "unwind",
                                           ![p.sid].cause = "nested",
                                           ![p.sid].bodyend = "panic"]
    /\ UNCHANGED <<held, guards, ginfo, assigns, finseq>>
    /\ UNCHANGED aux

----------------------------------------------------------------------------
\* StaticScopeGuard: created and used by code outside the scope() calls, as
\* usage1 of examples/example.rs does.

\* code outside every scope() call is running
InMain == status \in {"running", "done"} /\ frames = <<>>
\* the StaticScopeGuards that are alive
OwnedStatics == {g \in DOMAIN guards : guards[g].kind = "static" /\ ginfo[g].st = "held"}

\* StaticScopeGuard::new()
StaticGuardNew ==
    /\ InMain
    /\ Cardinality({g \in DOMAIN guards : guards[g].kind = "static"}) < MaxStatic
    /\ guards' = Append(guards, StaticNew)
    /\ ginfo' = Append(ginfo, [scope |-> 0, pos |-> 0, st |-> "held", via |-> "none",
                               ran |-> 0, atend |-> None])
    /\ assigns' = Append(assigns, <<>>)
    /\ UNCHANGED <<frames, held, scopes, finseq, status>>
    /\ UNCHANGED aux

\* g.set_handler(None) or g.set_handler(Some(closure)) on a StaticScopeGuard
StaticSetHandler ==
    /\ InMain
    /\ NumAssigns < MaxAssign
    /\ \E g \in OwnedStatics, some \in BOOLEAN, panics \in BOOLEAN :
          /\ some \/ ~panics
          /\ assigns' = [assigns EXCEPT ![g] =
                             Append(@, [some |-> some, panics |-> panics,
                                        s |-> 0, inv |-> 0])]
          /\ guards' = [guards EXCEPT ![g] =
                            SetHandler(@, IF some THEN Len(assigns[g]) + 1 ELSE None)]
    /\ UNCHANGED <<frames, held, ginfo, scopes, finseq, status>>
    /\ UNCHANGED aux

\* ScopeGuardPriv::call on a StaticScopeGuard
StaticGuardCall ==
    /\ InMain
    /\ \E g \in OwnedStatics :
          /\ ginfo[g].via # "call"
          /\ Finalized(g, Call(guards[g]), "call", FALSE)
    /\ UNCHANGED <<frames, held, scopes, status>>
    /\ UNCHANGED aux

\* A StaticScopeGuard is dropped.
StaticGuardDrop ==
    /\ InMain
    /\ \E g \in OwnedStatics :
          Finalized(g, DropGuard(guards[g]), "drop", TRUE)
    /\ UNCHANGED <<frames, held, scopes, status>>
    /\ UNCHANGED aux

----------------------------------------------------------------------------
Next ==
    \/ ScopeEnter
    \/ BodySetHandler
    \/ BodyDrop
    \/ BodyForget
    \/ BodyReturn
    \/ BodyPanic
    \/ SweepStep
    \/ SweepDone
    \/ DropStep
    \/ ScopeReturn
    \/ UnwindBodyStep
    \/ UnwindScopeStep
    \/ UnwindExit

Spec == Init /\ [][Next]_vars

\* The static guards next to scopes whose bodies return.
NextStatic ==
    \/ StaticGuardNew
    \/ StaticSetHandler
    \/ StaticGuardCall
    \/ StaticGuardDrop
    \/ ScopeEnter
    \/ BodySetHandler
    \/ BodyReturn
    \/ SweepStep
    \/ SweepDone
    \/ DropStep
    \/ ScopeReturn

SpecStatic == Init /\ [][NextStatic]_vars

----------------------------------------------------------------------------
\* A scope() over (LocalScopeGuard<H>, LocalScopeGuard<H>), the collection of
\* usage1 in examples/example.rs, with a tuple handler H = (H1, ..., Hn).
\* tup.slots are the two guards, tup.log the closures run so far as
\* <<guard, element>>, tup.atend the handlers held when the body ended and
\* tup.pan the closure whose panic started the unwind of scope().

TupleScopeArity == 2

\* the number of closures in a tuple handler
NumSome(h) == Cardinality({i \in DOMAIN h : h[i] # None})
\* the log after guard j has run the elements inv
TupleLogged(j, inv) == tup.log \o [k \in 1..Len(inv) |-> <<j, inv[k]>>]

\* scope(): G::new() for the pair, body(guards) is entered
TupleScopeEnter ==
    /\ tup.pc = "main"
    /\ \E n \in 0..MaxTupleLen :
          tup' = [tup EXCEPT !.pc = "body", !.n = n,
                             !.slots = [j \in 1..TupleScopeArity |-> TupleLocalNew(n)]]
    /\ UNCHANGED <<frames, held, guards, ginfo, scopes, assigns, finseq, status, col, dma>>

\* the body calls g.set_handler(h) with a tuple h of n elements
TupleSetHandler ==
    /\ tup.pc = "body"
    /\ \E j \in 1..TupleScopeArity, h \in [1..tup.n -> {None, OkFn, PanicFn}] :
          /\ tup.used + NumSome(h) <= MaxClosures
          /\ tup' = [tup EXCEPT !.slots[j] = SetHandler(@, h),
                                !.used = @ + NumSome(h)]
    /\ UNCHANGED <<frames, held, guards, ginfo, scopes, assigns, finseq, status, col, dma>>

\* body(guards) returns the pair
TupleBodyReturn ==
    /\ tup.pc = "body"
    /\ tup' = [tup EXCEPT !.pc = "sweep", !.idx = 1,
                          !.atend = [j \in 1..TupleScopeArity |-> tup.slots[j].handler]]
    /\ UNCHANGED <<frames, held, guards, ginfo, scopes, assigns, finseq, status, col, dma>>

\* the body panics
TupleBodyPanic ==
    /\ tup.pc = "body"
    /\ tup' = [tup EXCEPT !.pc = "unwind_body", !.left = 1..TupleScopeArity,
                          !.atend = [j \in 1..TupleScopeArity |-> tup.slots[j].handler]]
    /\ UNCHANGED <<frames, held, guards, ginfo, scopes, assigns, finseq, status, col, dma>>

\* guards.call_all(): call_all() on the next element of the pair
TupleSweepStep ==
    /\ tup.pc = "sweep" /\ tup.idx <= TupleScopeArity
    /\ LET j == tup.idx
           c == TupleLocalCall(tup.slots[j])
       IN tup' = [tup EXCEPT
                     !.slots[j] = c.guard,
                     !.log = TupleLogged(j, c.result.invoked),
                     !.pc = IF c.result.panicked THEN "unwind_scope" ELSE @,
                     !.pan = IF c.result.panicked
                             THEN <<j, c.result.invoked[Len(c.result.invoked)]>> ELSE @,
                     !.idx = IF c.result.panicked THEN 1 ELSE @ + 1]
    /\ UNCHANGED <<frames, held, guards, ginfo, scopes, assigns, finseq, status, col, dma>>

\* call_all() has returned
TupleSweepDone ==
    /\ tup.pc = "sweep" /\ tup.idx > TupleScopeArity
    /\ tup' = [tup EXCEPT !.pc = "drop", !.idx = 1]
    /\ UNCHANGED <<frames, held, guards, ginfo, scopes, assigns, finseq, status, col, dma>>

\* end of scope(): the pair is dropped, Drop for LocalScopeGuard on each
TupleDropStep ==
    /\ tup.pc = "drop" /\ tup.idx <= TupleScopeArity
    /\ LET j == tup.idx
           c == TupleLocalCall(tup.slots[j])
       IN tup' = [tup EXCEPT
                     !.slots[j] = c.guard,
                     !.log = TupleLogged(j, c.result.invoked),
                     !.pc = IF c.result.panicked THEN "unwind_scope" ELSE @,
                     !.idx = @ + 1]
    /\ UNCHANGED <<frames, held, guards, ginfo, scopes, assigns, finseq, status, col, dma>>

\* scope() returns
TupleScopeReturn ==
    /\ tup.pc = "drop" /\ tup.idx > TupleScopeArity
    /\ tup' = [tup EXCEPT !.pc = "done"]
    /\ UNCHANGED <<frames, held, guards, ginfo, scopes, assigns, finseq, status, col, dma>>

\* the unwind of the body drops the guards, in the order of the body's
\* bindings; a closure that panics during the unwind aborts the process
TupleUnwindBodyStep ==
    /\ tup.pc = "unwind_body"
    /\ \E j \in tup.left :
       LET c == TupleLocalCall(tup.slots[j])
       IN tup' = [tup EXCEPT
                     !.slots[j] = c.guard,
                     !.log = TupleLogged(j, c.result.invoked),
                     !.pc = IF c.result.panicked THEN "aborted" ELSE @,
                     !.left = @ \ {j}]
    /\ UNCHANGED <<frames, held, guards, ginfo, scopes, assigns, finseq, status, col, dma>>

\* the unwind of scope() after a panic in call_all() drops the pair
TupleUnwindScopeStep ==
    /\ tup.pc = "unwind_scope" /\ tup.idx <= TupleScopeArity
    /\ LET j == tup.idx
           c == TupleLocalCall(tup.slots[j])
       IN tup' = [tup EXCEPT
                     !.slots[j] = c.guard,
                     !.log = TupleLogged(j, c.result.invoked),
                     !.pc = IF c.result.panicked THEN "aborted" ELSE @,
                     !.idx = @ + 1]
    /\ UNCHANGED <<frames, held, guards, ginfo, scopes, assigns, finseq, status, col, dma>>

\* the unwind leaves scope()
TupleUnwindExit ==
    /\ \/ tup.pc = "unwind_body" /\ tup.left = {}
       \/ tup.pc = "unwind_scope" /\ tup.idx > TupleScopeArity
    /\ tup' = [tup EXCEPT !.pc = "unwound"]
    /\ UNCHANGED <<frames, held, guards, ginfo, scopes, assigns, finseq, status, col, dma>>

NextTuple ==
    \/ TupleScopeEnter
    \/ TupleSetHandler
    \/ TupleBodyReturn
    \/ TupleBodyPanic
    \/ TupleSweepStep
    \/ TupleSweepDone
    \/ TupleDropStep
    \/ TupleScopeReturn
    \/ TupleUnwindBodyStep
    \/ TupleUnwindScopeStep
    \/ TupleUnwindExit

SpecTuple == Init /\ [][NextTuple]_vars

----------------------------------------------------------------------------
\* Guard collections (LocalScopeGuards): a LocalScopeGuard, a tuple of
\* collections or an array [T; n] of collections of one type, nested.  A
\* shape (a type G) is [t, e] with t "guard", "tuple" or "array" and e the
\* shapes of the elements; a collection (a value of type G) has the same
\* form, with the guard's id at every leaf.  A scope() over such a type:
\* col.coll is the collection, col.slots the guards by id, col.visited the
\* guards call_all() has called, col.ran the guards whose closure has run.

\* the types G with n nodes, and the sequences of k types with m nodes in all
RECURSIVE ShapesOfSize(_), ForestsOfSize(_, _)
ShapesOfSize(n) ==
    (IF n = 1 THEN {Leaf} ELSE {}) \cup
    UNION {LET F == ForestsOfSize(k, n - 1)
           IN {[t |-> "tuple", e |-> f] : f \in F} \cup
              {[t |-> "array", e |-> f] :
                  f \in {x \in F : \A i, j \in DOMAIN x : x[i] = x[j]}}
           : k \in 0..Min(MaxTupleLen, n - 1)}
ForestsOfSize(k, m) ==
    IF k = 0 THEN (IF m = 0 THEN {<<>>} ELSE {})
    ELSE UNION {{<<x>> \o f : x \in ShapesOfSize(j), f \in ForestsOfSize(k - 1, m - j)}
                : j \in 1..(m - (k - 1))}
\* a guard, and the tuples and arrays of 0 to 6 guards
FlatShapes ==
    {Leaf} \cup {[t |-> k, e |-> [i \in 1..n |-> Leaf]] :
                    k \in {"tuple", "array"}, n \in 0..MaxTupleLen}
\* the types G of the model: the flat ones and the nested ones of up to
\* MaxNodes nodes
Shapes == FlatShapes \cup UNION {ShapesOfSize(n) : n \in 1..MaxNodes}

\* LocalScopeGuards::new() for the type shape, the guards created so far
\* being 1..next: the tuple and array impls call new() on the elements from
\* left to right, the LocalScopeGuard impl creates the guard
RECURSIVE CollNewAt(_, _), CollNewFrom(_, _, _, _)
CollNewFrom(ss, i, acc, next) ==
    IF i > Len(ss) THEN [es |-> acc, next |-> next]
    ELSE LET r == CollNewAt(ss[i], next)
         IN CollNewFrom(ss, i + 1, Append(acc, r.c), r.next)
CollNewAt(shape, next) ==
    IF shape.t = "guard"
    THEN [c |-> [t |-> "guard", e |-> <<>>, id |-> next + 1], next |-> next + 1]
    ELSE LET r == CollNewFrom(shape.e, 1, <<>>, next)
         IN [c |-> [t |-> shape.t, e |-> r.es, id |-> 0], next |-> r.next]

\* the guards of a collection, depth first and from left to right
RECURSIVE Flatten(_), FlattenFrom(_, _)
FlattenFrom(es, i) == IF i > Len(es) THEN <<>> ELSE Flatten(es[i]) \o FlattenFrom(es, i + 1)
Flatten(c) == IF c.t = "guard" THEN <<c.id>> ELSE FlattenFrom(c.e, 1)

\* the collection with the guards a and b exchanged
RECURSIVE Exchange(_, _, _)
Exchange(c, a, b) ==
    IF c.t = "guard"
    THEN [c EXCEPT !.id = IF @ = a THEN b ELSE IF @ = b THEN a ELSE @]
    ELSE [c EXCEPT !.e = [i \in DOMAIN c.e |-> Exchange(c.e[i], a, b)]]

RECURSIVE CollCallAll(_, _), CollCallAllFrom(_, _, _)

\* Faulty variant of CollCallAll: the tuple and array impls leave out their
\* first element
CollCallAllSkip(c, st) ==
    IF c.t = "guard"
    THEN LET r == LocalCallAll(st.slots[c.id])
         IN [slots |-> [st.slots EXCEPT ![c.id] = r.guard],
             visited |-> Append(st.visited, c.id),
             ran |-> st.ran \o (IF r.invoked # <<>> THEN <<c.id>> ELSE <<>>),
             panicked |-> r.invoked # <<>> /\ r.invoked[1] = PanicFn]
    ELSE CollCallAllFrom(c.e, 2, st)

\* $($elem.call_all();)* and for elem in self { elem.call_all() }, from
\* element i on; a panic ends the sweep
CollCallAllFrom(es, i, st) ==
    IF i > Len(es) \/ st.panicked THEN st
    ELSE CollCallAllFrom(es, i + 1, CollCallAll(es[i], st))

\* LocalScopeGuards::call_all(&mut self) on the collection c
CollCallAll(c, st) ==
    IF c.t = "guard"
    THEN LET r == LocalCallAll(st.slots[c.id])
         IN [slots |-> [st.slots EXCEPT ![c.id] = r.guard],
             visited |-> Append(st.visited, c.id),
             ran |-> st.ran \o (IF r.invoked # <<>> THEN <<c.id>> ELSE <<>>),
             panicked |-> r.invoked # <<>> /\ r.invoked[1] = PanicFn]
    ELSE CollCallAllFrom(c.e, 1, st)

\* Dropping the collection: the elements are dropped from left to right, a
\* guard through Drop for LocalScopeGuard.  lvl is 0, 1 while the thread is
\* unwinding and 2 after a panic during the unwind (abort).
RECURSIVE CollDrop(_, _), CollDropFrom(_, _, _)
CollDropFrom(es, i, st) ==
    IF i > Len(es) \/ st.lvl = 2 THEN st
    ELSE CollDropFrom(es, i + 1, CollDrop(es[i], st))
CollDrop(c, st) ==
    IF c.t = "guard"
    THEN LET r == DropGuard(st.slots[c.id])
         IN [slots |-> [st.slots EXCEPT ![c.id] = r.guard],
             ran |-> st.ran \o (IF r.invoked # <<>> THEN <<c.id>> ELSE <<>>),
             lvl |-> IF r.invoked # <<>> /\ r.invoked[1] = PanicFn
                     THEN st.lvl + 1 ELSE st.lvl]
    ELSE CollDropFrom(c.e, 1, st)

ColUnchanged ==
    UNCHANGED <<frames, held, guards, ginfo, scopes, assigns, finseq, status, tup, dma>>

\* scope::<G, _, _>(body): let guards = G::new(); body(guards) is entered
ColScopeEnter ==
    /\ col.pc = "main"
    /\ \E shape \in Shapes :
       LET r == CollNewAt(shape, 0)
       IN col' = [col EXCEPT !.pc = "body", !.shape = shape, !.coll = r.c,
                             !.n = r.next,
                             !.slots = [i \in 1..r.next |-> LocalNew]]
    /\ ColUnchanged

\* the body calls set_handler(Some(closure)) on a guard
ColSetHandler ==
    /\ col.pc = "body"
    /\ col.used < MaxColAssign
    /\ \E g \in 1..col.n, h \in {OkFn, PanicFn} :
          col' = [col EXCEPT !.slots[g] = SetHandler(@, h), !.used = @ + 1]
    /\ ColUnchanged

\* the body exchanges two guards (core::mem::swap(&mut a, &mut b)): every
\* leaf of G has the same type
ColSwap ==
    /\ col.pc = "body"
    /\ col.swaps < MaxColSwap
    /\ \E a, b \in 1..col.n :
          /\ a < b
          /\ col' = [col EXCEPT !.coll = Exchange(@, a, b), !.swaps = @ + 1]
    /\ ColUnchanged

\* body(guards) returns the collection
ColBodyReturn ==
    /\ col.pc = "body"
    /\ col' = [col EXCEPT !.pc = "sweep"]
    /\ ColUnchanged

\* guards.call_all()
ColCallAll ==
    /\ col.pc = "sweep"
    /\ LET r == CollCallAll(col.coll, [slots |-> col.slots, visited |-> <<>>,
                                       ran |-> <<>>, panicked |-> FALSE])
       IN col' = [col EXCEPT !.slots = r.slots, !.visited = r.visited, !.ran = r.ran,
                             !.pc = IF r.panicked THEN "unwind" ELSE "drop"]
    /\ ColUnchanged

\* the local guards of scope() is dropped, at its end or by the unwind;
\* scope() returns, or the unwind leaves it, or the process aborts
ColDrop ==
    /\ col.pc \in {"drop", "unwind"}
    /\ LET r == CollDrop(col.coll, [slots |-> col.slots, ran |-> col.ran,
                                    lvl |-> IF col.pc = "unwind" THEN 1 ELSE 0])
       IN col' = [col EXCEPT !.slots = r.slots, !.ran = r.ran,
                             !.pc = CASE r.lvl = 0 -> "done"
                                      [] r.lvl = 1 -> "unwound"
                                      [] OTHER -> "aborted"]
    /\ ColUnchanged

NextColl ==
    \/ ColScopeEnter
    \/ ColSetHandler
    \/ ColSwap
    \/ ColBodyReturn
    \/ ColCallAll
    \/ ColDrop

SpecColl == Init /\ [][NextColl]_vars

----------------------------------------------------------------------------
\* examples/example.rs: Dma<Off> and Dma<Running<G>>.  dma.state is the
\* type state, dma.guard the guard a running Dma owns and dma.stopped the
\* guards that stop() has handed back and that were not started again.
\* The code that drives the Dma is a scope body or, as at the end of
\* usage1, main with a StaticScopeGuard.

\* the guards the code that is running can pass to start()
DmaGuards ==
    IF InBody THEN held
    ELSE IF InMain THEN held \cup OwnedStatics
    ELSE {}

\* Dma<Off>::start(self, data, guard):
\*     *guard.handler_mut() = Some(|| println!("stop DMA"));
\* the guard moves into the Dma<Running>
DmaStart ==
    /\ dma.state = "off"
    /\ NumAssigns < MaxAssign
    /\ \E g \in DmaGuards :
          /\ assigns' = [assigns EXCEPT ![g] =
                             Append(@, [some |-> TRUE, panics |-> FALSE,
                                        s |-> IF InBody THEN Top.sid ELSE 0, inv |-> 0])]
          /\ guards' = [guards EXCEPT ![g] = SetHandler(@, Len(assigns[g]) + 1)]
          /\ held' = held \ {g}
          /\ dma' = [state |-> "running", guard |-> g, stopped |-> dma.stopped \ {g}]
    /\ UNCHANGED <<frames, ginfo, scopes, finseq, status, tup, col>>

\* Dma<Running<G>>::stop(self): let Running { data, mut guard } = self.state;
\*     // Clear guard.
\*     *guard.handler_mut() = Some(|| println!("stop DMA"));
\* the guard is handed back to the caller
DmaStop ==
    /\ dma.state = "running"
    /\ InBody \/ InMain
    /\ NumAssigns < MaxAssign
    /\ LET g == dma.guard
       IN /\ assigns' = [assigns EXCEPT ![g] =
                             Append(@, [some |-> TRUE, panics |-> FALSE,
                                        s |-> IF InBody THEN Top.sid ELSE 0, inv |-> 0])]
          /\ guards' = [guards EXCEPT ![g] = SetHandler(@, Len(assigns[g]) + 1)]
          /\ held' = IF guards[g].kind = "local" THEN held \cup {g} ELSE held
          /\ dma' = [state |-> "off", guard |-> 0, stopped |-> dma.stopped \cup {g}]
    /\ UNCHANGED <<frames, ginfo, scopes, finseq, status, tup, col>>

NextDma ==
    \/ DmaStart
    \/ DmaStop
    \/ StaticGuardNew
    \/ ScopeEnter
    \/ BodyReturn
    \/ SweepStep
    \/ SweepDone
    \/ DropStep
    \/ ScopeReturn

SpecDma == Init /\ [][NextDma]_vars

----------------------------------------------------------------------------
\* Properties.

Locals == {g \in DOMAIN guards : guards[g].kind = "local"}
Statics == {g \in DOMAIN guards : guards[g].kind = "static"}
Finalizedp(g) == g \in Range(finseq)
\* position of g in the order of finalizations
FinPos(g) == CHOOSE i \in DOMAIN finseq : finseq[i] = g
\* the k-th set_handler call on g stored a closure and was later replaced
Replaced(g, k) == k < Len(assigns[g])
\* the body of s ended by unwinding
BodyUnwound(s) == scopes[s].cause \in {"panic", "bodydrop", "nested"}
\* scope s was called (directly or not) from inside the body of scope t
RECURSIVE Inside(_, _)
Inside(s, t) ==
    /\ scopes[s].parent # 0
    /\ \/ scopes[s].parent = t
       \/ Inside(scopes[s].parent, t)

\* C1: for every LocalScopeGuard created by a scope() call whose body
\* returns normally, the handler the guard holds when the body returns has
\* been invoked exactly once when scope() returns.
C1_CreatedGuardRunOnceBeforeReturn ==
    \A s \in DOMAIN scopes :
        scopes[s].exit = "return" =>
            \A i \in DOMAIN scopes[s].created :
                LET g == scopes[s].created[i]
                IN ginfo[g].atend # None => assigns[g][ginfo[g].atend].inv = 1

\* C2: a handler that the body of scope() assigned to a guard (and did not
\* replace) before the body panicked has been invoked exactly once when the
\* unwind has left scope().
C2_UnwindRunsAssignedHandler ==
    \A s \in DOMAIN scopes :
        (scopes[s].exit = "unwind" /\ BodyUnwound(s)) =>
            \A g \in Locals : \A k \in DOMAIN assigns[g] :
                (assigns[g][k].s = s /\ assigns[g][k].some /\ ~Replaced(g, k))
                    => assigns[g][k].inv = 1

\* C3: a replaced handler is never invoked, and every closure that the
\* finalizations of a guard run is the one of the last set_handler call on
\* that guard; after set_handler(None) as the last call they run nothing.
C3_ReplacedNeverInvoked ==
    \A g \in Locals :
        /\ \A k \in DOMAIN assigns[g] : Replaced(g, k) => assigns[g][k].inv = 0
        /\ ginfo[g].ran = IF assigns[g] = <<>> THEN 0
                          ELSE assigns[g][Len(assigns[g])].inv
        /\ (assigns[g] # <<>> /\ ~assigns[g][Len(assigns[g])].some) => ginfo[g].ran = 0

\* C3 witness: a guard whose first handler was replaced by a second one has
\* been finalized, and the second one has run.
C3_Witness ==
    \E g \in Locals :
        /\ Len(assigns[g]) = 2
        /\ assigns[g][1].some
        /\ assigns[g][2].inv = 1
        /\ Finalizedp(g)

\* C4: when scope() has returned, the handlers of the guards it created
\* that the sweep invoked were invoked in the construction order of their
\* guards.
C4_SweepInConstructionOrder ==
    \A s \in DOMAIN scopes :
        scopes[s].exit = "return" =>
            \A i, j \in DOMAIN scopes[s].created :
                LET a == scopes[s].created[i]
                    b == scopes[s].created[j]
                IN (i < j /\ {a, b} \subseteq Range(scopes[s].coll)
                          /\ ginfo[a].via = "sweep" /\ ginfo[b].via = "sweep"
                          /\ ginfo[a].ran > 0 /\ ginfo[b].ran > 0)
                       => FinPos(a) < FinPos(b)

\* C5: when the body of scope() has unwound, the guards that scope created
\* and that held handlers when the unwind dropped them were finalized in
\* construction order.
C5_UnwindInConstructionOrder ==
    \A s \in DOMAIN scopes :
        (scopes[s].exit = "unwind" /\ BodyUnwound(s)) =>
            \A i, j \in DOMAIN scopes[s].created :
                LET a == scopes[s].created[i]
                    b == scopes[s].created[j]
                IN (i < j /\ ginfo[a].via = "unwind" /\ ginfo[b].via = "unwind"
                          /\ ginfo[a].ran > 0 /\ ginfo[b].ran > 0)
                       => FinPos(a) < FinPos(b)

\* C6: when a closure panicked in the call_all() sweep of scope() and the
\* unwind has left scope(), every guard of the swept collection has had the
\* handler it held at the start of the sweep invoked exactly once.
C6_SweepPanicRunsTheOthers ==
    \A s \in DOMAIN scopes :
        (scopes[s].exit = "unwind" /\ scopes[s].cause = "sweep") =>
            \A i \in DOMAIN scopes[s].coll :
                scopes[s].hs[i] # None =>
                    assigns[scopes[s].coll[i]][scopes[s].hs[i]].inv = 1

\* C6 witness: the closure of the first guard panicked in the sweep and the
\* closure of the second guard has run, through Drop, when the unwind has
\* left scope().
C6_Witness ==
    \E s \in DOMAIN scopes :
        /\ scopes[s].exit = "unwind" /\ scopes[s].cause = "sweep"
        /\ Len(scopes[s].coll) >= 2
        /\ scopes[s].hs[1] # None /\ scopes[s].hs[2] # None
        /\ assigns[scopes[s].coll[1]][scopes[s].hs[1]].panics
        /\ ginfo[scopes[s].coll[2]].via = "unwind"
        /\ assigns[scopes[s].coll[2]][scopes[s].hs[2]].inv = 1

\* C7: no call_all() sweep invokes the handler of a guard while the body of
\* the scope() call that created the guard is still running.
C7_NoSweepBeforeBodyEnd ==
    \A g \in Locals :
        (ginfo[g].via = "sweep" /\ ginfo[g].ran > 0)
            => scopes[ginfo[g].scope].bodyend # "none"

\* C8: for nested scope() calls, a sweep finalizes a guard of the outer
\* scope only after every guard of the inner scope has been finalized.
C8_InnerBeforeOuter ==
    \A gi, go \in Locals :
        (Inside(ginfo[gi].scope, ginfo[go].scope) /\ ginfo[go].via = "sweep")
            => (Finalizedp(gi) /\ FinPos(gi) < FinPos(go))

\* C9: a StaticScopeGuard has no slot, equals a freshly created one after
\* any set_handler calls, and none of the handlers given to it is ever run,
\* by call() or when it is dropped.
C9_StaticSetHandlerNoop ==
    \A g \in Statics :
        /\ ~HandlerMut(guards[g])
        /\ guards[g] = StaticNew
        /\ ginfo[g].ran = 0
        /\ \A k \in DOMAIN assigns[g] : assigns[g][k].inv = 0

\* C9 witness: a StaticScopeGuard was given a closure, call() ran on it and
\* it was dropped.
C9_Witness ==
    \E g \in Statics :
        /\ \E k \in DOMAIN assigns[g] : assigns[g][k].some
        /\ ginfo[g].via = "call"
        /\ ginfo[g].st = "dead"

\* C10: a guard that never received a handler holds the empty handler and
\* its finalizations run nothing; a scope() that sweeps only such guards
\* raises no panic in the sweep or in the drop that follows.
C10_EmptyGuardNoop ==
    /\ \A g \in Locals : assigns[g] = <<>> =>
           (guards[g].handler = None /\ ginfo[g].ran = 0)
    /\ \A s \in DOMAIN scopes :
           (scopes[s].bodyend = "return" /\
            \A i \in DOMAIN scopes[s].coll : assigns[scopes[s].coll[i]] = <<>>)
               => (scopes[s].exit # "unwind" /\ scopes[s].cause = "none")

\* C10 witness: a scope() has returned after the sweep and the drop
\* finalized a guard that was never assigned, and the unwind of another
\* body has dropped one.
C10_Witness ==
    /\ \E s \in DOMAIN scopes :
           /\ scopes[s].exit = "return"
           /\ \E i \in DOMAIN scopes[s].coll :
                  /\ assigns[scopes[s].coll[i]] = <<>>
                  /\ ginfo[scopes[s].coll[i]].via = "sweep"
                  /\ ginfo[scopes[s].coll[i]].st = "dead"
    /\ \E g \in Locals : assigns[g] = <<>> /\ ginfo[g].via = "unwind"

\* C11: call() leaves the empty handler in the slot, so a second call() on
\* the guard runs nothing; a finalized guard holds the empty handler, and of
\* the sweep and the Drop that follows it only the first one runs the
\* handler: no closure is run twice.
C11_FinalizeIdempotent ==
    \A g \in Locals :
        /\ LocalCall(guards[g]).guard.handler = None
        /\ LocalCall(LocalCall(guards[g]).guard).invoked = <<>>
        /\ Finalizedp(g) => guards[g].handler = None
        /\ ginfo[g].ran <= 1
        /\ \A k \in DOMAIN assigns[g] : assigns[g][k].inv <= 1

\* C11 witness: a guard that held a closure was finalized by the sweep and
\* then dropped at the end of scope(), and the closure has run once.
C11_Witness ==
    \E g \in Locals :
        /\ ginfo[g].via = "sweep"
        /\ ginfo[g].st = "dead"
        /\ ginfo[g].ran = 1
        /\ scopes[ginfo[g].scope].exit = "return"

\* the positions of the closures of a tuple handler, in declaration order
SomePositions(h) == SelectSeq([i \in 1..Len(h) |-> i], LAMBDA i : h[i] # None)
\* the elements of guard j's handler that have been run, in the order run
TupleGuardLog(j) ==
    LET l == SelectSeq(tup.log, LAMBDA e : e[1] = j)
    IN [k \in 1..Len(l) |-> l[k][2]]
IsPrefix(a, b) == Len(a) <= Len(b) /\ a = SubSeq(b, 1, Len(a))
TupleBodyEnded == tup.pc \notin {"main", "body"}

\* C12: when the call() of every guard has returned (the sweep is over),
\* every closure of the tuple handler a guard held has run exactly once, in
\* declaration order, whatever elements are None, for every arity 0..6; at
\* any time the closures run are a prefix of that order; a new guard holds
\* the tuple of Nones, and calling it runs nothing.
C12_TupleCallInOrder ==
    /\ tup.pc \in {"drop", "done"} =>
           \A j \in 1..TupleScopeArity : TupleGuardLog(j) = SomePositions(tup.atend[j])
    /\ TupleBodyEnded =>
           \A j \in 1..TupleScopeArity :
               IsPrefix(TupleGuardLog(j), SomePositions(tup.atend[j]))
    /\ (tup.pc = "body" /\ tup.used = 0) =>
           \A j \in 1..TupleScopeArity :
               /\ \A i \in 1..tup.n : tup.slots[j].handler[i] = None
               /\ Len(tup.slots[j].handler) = tup.n
               /\ TupleLocalCall(tup.slots[j]).result.invoked = <<>>

\* C12 witness: scope() has returned; a guard held a handler of arity 6
\* with a None element before a closure, and that closure has run.
C12_Witness ==
    /\ tup.pc = "done"
    /\ tup.n = MaxTupleLen
    /\ \E j \in 1..TupleScopeArity : \E i, k \in 1..tup.n :
           /\ i < k
           /\ tup.atend[j][i] = None
           /\ tup.atend[j][k] # None
           /\ <<j, k>> \in Range(tup.log)

\* C13: for every collection type, the collection holds each guard that
\* new() created exactly once, new() creates them depth first from left to
\* right, and when call_all() has returned it has called every guard of the
\* collection exactly once, depth first from left to right; a call_all()
\* that a panic ended has called a prefix of that order.
C13_CallAllVisitsEveryLeaf ==
    /\ col.pc # "main" =>
           /\ Len(Flatten(col.coll)) = col.n
           /\ Range(Flatten(col.coll)) = 1..col.n
    /\ (col.pc = "body" /\ col.swaps = 0) => Flatten(col.coll) = [i \in 1..col.n |-> i]
    /\ col.pc \in {"drop", "done"} =>
           /\ col.visited = Flatten(col.coll)
           /\ \A g \in 1..col.n :
                  Cardinality({i \in DOMAIN col.visited : col.visited[i] = g}) = 1
    /\ col.pc \in {"unwind", "unwound", "aborted"} =>
           IsPrefix(col.visited, Flatten(col.coll))
    /\ col.pc = "done" => \A g \in 1..col.n : col.slots[g].handler = None

\* C13 witness: scope() has returned after the sweep of a tuple that holds
\* an array of one guard and a further guard; both closures have run.
C13_Witness ==
    /\ col.pc = "done"
    /\ col.shape.t = "tuple"
    /\ Len(col.shape.e) = 2
    /\ col.shape.e[1].t = "array" /\ Len(col.shape.e[1].e) = 1
    /\ col.shape.e[2].t = "guard"
    /\ col.n = 2
    /\ Len(col.ran) = 2

\* C14: when scope() has returned, its result is the out that the body
\* returned (the value and the guards moved into it, unchanged by the
\* sweep) and every guard the scope created has been finalized; when the
\* unwind has left scope(), there is no result.
C14_ReturnsBodyResultAfterFinalize ==
    \A s \in DOMAIN scopes :
        /\ scopes[s].exit = "return" =>
               /\ scopes[s].result.v # NoResult
               /\ scopes[s].result = scopes[s].out
               /\ \A i \in DOMAIN scopes[s].created : Finalizedp(scopes[s].created[i])
        /\ scopes[s].exit # "return" => scopes[s].result.v = NoResult

\* C15: a closure that panics is run at most once, and the guard that held
\* it holds the empty handler afterwards (so the Drop of that guard during
\* the unwind runs nothing); a scope() in whose sweep or final drop a
\* closure panicked does not return, and the program does not complete
\* normally once a panicking closure has run.
C15_PanicNotMaskedNotRetried ==
    /\ \A g \in Locals : \A k \in DOMAIN assigns[g] :
           (assigns[g][k].panics /\ assigns[g][k].inv > 0) =>
               /\ assigns[g][k].inv = 1
               /\ guards[g].handler = None
               /\ status # "done"
               /\ frames = <<>> => status \in {"unwound", "aborted"}
    /\ \A s \in DOMAIN scopes :
           scopes[s].cause \in {"sweep", "drop"} =>
               /\ scopes[s].exit # "return"
               /\ (status = "unwound" => scopes[s].exit = "unwind")

\* C15 witness: a closure panicked in the sweep, the unwind of scope()
\* dropped the guard that had held it and has left scope(); the closure has
\* run once.
C15_Witness ==
    \E s \in DOMAIN scopes : \E i \in DOMAIN scopes[s].coll :
        LET g == scopes[s].coll[i]
        IN /\ scopes[s].cause = "sweep"
           /\ scopes[s].exit = "unwind"
           /\ scopes[s].hs[i] # None
           /\ assigns[g][scopes[s].hs[i]].panics
           /\ assigns[g][scopes[s].hs[i]].inv = 1
           /\ ginfo[g].via = "sweep"
           /\ ginfo[g].st = "dead"
           /\ status = "unwound"

\* C16: a LocalScopeGuard that Dma::stop has handed back (after start, in
\* a scope body) holds the empty handler, and no finalization of it runs a
\* "stop DMA" closure.
C16_StopClearsHandler ==
    \A g \in Locals :
        g \in dma.stopped =>
            /\ guards[g].handler = None
            /\ ginfo[g].ran = 0

\* C17: when the closure at position i of a guard's tuple handler has
\* panicked, the elements after i of that handler are never run and the
\* guard holds the tuple of Nones; when the panic happened in the sweep and
\* the unwind has left scope(), every closure of the other guards of the
\* collection has run, the ones after that guard through Drop.
C17_TupleElementsAfterPanicDropped ==
    /\ TupleBodyEnded =>
           \A j \in 1..TupleScopeArity : \A i \in 1..tup.n :
               (tup.atend[j][i] = PanicFn /\ <<j, i>> \in Range(tup.log)) =>
                   /\ \A k \in (i + 1)..tup.n : <<j, k>> \notin Range(tup.log)
                   /\ tup.slots[j].handler = TupleNone(tup.n)
    /\ (tup.pc = "unwound" /\ tup.pan # <<>>) =>
           \A j \in 1..TupleScopeArity \ {tup.pan[1]} :
               TupleGuardLog(j) = SomePositions(tup.atend[j])

\* C17 witness: in the sweep, a closure of the first guard panicked with a
\* closure after it in the same tuple, which has not run; the closure of
\* the second guard has run, and the unwind has left scope().
C17_Witness ==
    /\ tup.pc = "unwound"
    /\ tup.pan # <<>>
    /\ tup.pan[1] = 1
    /\ \E k \in 1..tup.n :
           /\ k > tup.pan[2]
           /\ tup.atend[1][k] = OkFn
           /\ <<1, k>> \notin Range(tup.log)
    /\ \E m \in 1..tup.n : tup.atend[2][m] = OkFn /\ <<2, m>> \in Range(tup.log)
====
